---- MODULE Spec2Model ----
(***************************************************************************)
(* Bronze layer ingestion of the Deichmann retail pipeline                 *)
(* (python_script/01_Bronze_Layer_Data_Ingestion.py).                      *)
(*                                                                         *)
(* The notebook is one sequential script: it defines four schemas, reads   *)
(* four CSV files against them, runs data_quality_check on each frame,     *)
(* adds two lineage columns, writes four Delta tables in overwrite mode    *)
(* and reads the tables back to print their row counts.  An exception in   *)
(* any statement ends the run: the script has no try/except.               *)
(*                                                                         *)
(* Values are strings; Null is the SQL NULL.  A CSV line is the sequence   *)
(* of its field tokens.  A DataFrame is a record of its column names, its  *)
(* rows (functions from column name to value) and its not yet evaluated    *)
(* withColumn expressions (Spark evaluates them when an action runs).      *)
(***************************************************************************)
EXTENDS Integers, Sequences, FiniteSets, TLC

\* ------------------------------------------------------------------ bounds
\* Longest CSV file (data lines) of a pipeline run.
MaxRows == 2
\* Longest CSV file of the reader specification.
MaxLines == 3
\* Most rows of a frame handed to data_quality_check in SpecAudit.
MaxAuditRows == 3
\* Number of times the notebook is run against the same metastore.
MaxRuns == 2
\* Number of statements that raise over all runs.
MaxFaults == 1

VARIABLES
    pc,         \* <<stage, dataset>>: the statement the run is at
    run,        \* number of the current notebook run
    faults,     \* statements that have raised so far
    clock,      \* wall clock, read by current_timestamp() when a query starts
    files,      \* DBFS: dataset -> data lines of its CSV file (header excluded)
    schemas,    \* dataset -> StructType, <<>> before Step 3 has run
    df_raw,     \* df_stores_raw, df_products_raw, df_customers_raw, df_sales_raw
    report,     \* what data_quality_check computed, per dataset
    df,         \* df_stores, df_products, df_customers, df_sales
    job,        \* the Delta write in progress
    tables,     \* metastore: table name -> data files and Delta log
    row_count,  \* stores_count, products_count, customers_count, sales_count
    out,        \* what the run has printed for the operator
    error,      \* the statement that raised, when the run is aborted
    trace,      \* history: the statements of the current run that have completed
    written     \* history: table name -> the rows of its last committed write

vars == <<pc, run, faults, clock, files, schemas, df_raw, report, df, job,
          tables, row_count, out, error, trace, written>>

\* ---------------------------------------------------------------- datasets
DatasetOrder == <<"Stores", "Products", "Customers", "Sales">>

Datasets == {DatasetOrder[i] : i \in 1..Len(DatasetOrder)}

Range(s) == {s[i] : i \in 1..Len(s)}

Null == "<null>"

\* ----------------------------------------------------------------- schemas
Field(n, t, nl) == [name |-> n, type |-> t, nullable |-> nl]

\* The Stores schema with the size_category field left out.
stores_schema_short ==
    << Field("store_id", "String", FALSE),
       Field("store_name", "String", TRUE),
       Field("city", "String", TRUE),
       Field("store_type", "String", TRUE),
       Field("size_sqm", "Integer", TRUE),
       Field("opening_date", "Date", TRUE),
       Field("is_active", "Boolean", TRUE) >>

stores_schema ==
    << Field("store_id", "String", FALSE),
       Field("store_name", "String", TRUE),
       Field("city", "String", TRUE),
       Field("store_type", "String", TRUE),
       Field("size_category", "String", TRUE),
       Field("size_sqm", "Integer", TRUE),
       Field("opening_date", "Date", TRUE),
       Field("is_active", "Boolean", TRUE) >>

products_schema ==
    << Field("product_id", "String", FALSE),
       Field("product_name", "String", TRUE),
       Field("brand", "String", TRUE),
       Field("category", "String", TRUE),
       Field("gender", "String", TRUE),
       Field("season", "String", TRUE),
       Field("price", "Double", TRUE),
       Field("cost", "Double", TRUE),
       Field("size_range", "String", TRUE),
       Field("color_options", "Integer", TRUE),
       Field("launch_date", "Date", TRUE),
       Field("is_active", "Boolean", TRUE) >>

customers_schema ==
    << Field("customer_id", "String", FALSE),
       Field("first_name", "String", TRUE),
       Field("last_name", "String", TRUE),
       Field("email", "String", TRUE),
       Field("age", "Integer", TRUE),
       Field("gender", "String", TRUE),
       Field("city", "String", TRUE),
       Field("registration_date", "Date", TRUE),
       Field("customer_segment", "String", TRUE),
       Field("loyalty_member", "Boolean", TRUE),
       Field("is_active", "Boolean", TRUE) >>

sales_schema ==
    << Field("transaction_id", "String", FALSE),
       Field("transaction_date", "Date", TRUE),
       Field("transaction_time", "String", TRUE),
       Field("store_id", "String", TRUE),
       Field("product_id", "String", TRUE),
       Field("customer_id", "String", TRUE),
       Field("quantity", "Integer", TRUE),
       Field("unit_price", "Double", TRUE),
       Field("discount_percent", "Integer", TRUE),
       Field("discount_amount", "Double", TRUE),
       Field("total_amount", "Double", TRUE),
       Field("payment_method", "String", TRUE),
       Field("channel", "String", TRUE) >>

\* The schema each read statement passes to .schema(...).
SchemaOf(d) ==
    CASE d = "Stores" -> stores_schema
      [] d = "Products" -> products_schema
      [] d = "Customers" -> customers_schema
      [] d = "Sales" -> sales_schema

FieldNames(schema) == [i \in 1..Len(schema) |-> schema[i].name]

\* lit("stores.csv") ... lit("sales.csv")
SourceFile(d) ==
    CASE d = "Stores" -> "stores.csv"
      [] d = "Products" -> "products.csv"
      [] d = "Customers" -> "customers.csv"
      [] d = "Sales" -> "sales.csv"

\* saveAsTable("bronze_stores") ... saveAsTable("bronze_sales")
TableOf(d) ==
    CASE d = "Stores" -> "bronze_stores"
      [] d = "Products" -> "bronze_products"
      [] d = "Customers" -> "bronze_customers"
      [] d = "Sales" -> "bronze_sales"

TableNames == {TableOf(d) : d \in Datasets}

\* partitionBy("transaction_date") is given for df_sales alone; "" is none.
PartitionBy(d) == IF d = "Sales" THEN "transaction_date" ELSE ""

\* ------------------------------------------------------- CSV field parsing
\* Spark's CSV reader in its default mode (PERMISSIVE, nullValue ""): the
\* empty field is NULL; a field that does not parse as the column's type is
\* NULL; a line with too few fields has NULL in the missing ones and a line
\* with too many loses the extra ones; every line gives one row.
IntegerLiterals == {"1", "2"}

DateLiterals == {"2023-01-01", "2023-01-02"}

Coerce(type, tok) ==
    CASE tok = "" -> Null
      [] tok # "" /\ type = "String" -> tok
      [] tok # "" /\ type = "Integer" ->
            IF tok \in IntegerLiterals THEN tok ELSE Null
      [] tok # "" /\ type = "Double" ->
            IF tok \in IntegerLiterals
            THEN (IF tok = "1" THEN "1.0" ELSE "2.0")
            ELSE IF tok = "1.5" THEN "1.5" ELSE Null
      [] tok # "" /\ type = "Date" ->
            IF tok \in DateLiterals THEN tok ELSE Null
      [] tok # "" /\ type = "Boolean" ->
            IF tok \in {"True", "true"} THEN "true"
            ELSE IF tok \in {"False", "false"} THEN "false" ELSE Null

IndexOf(names, n) == CHOOSE i \in 1..Len(names) : names[i] = n

\* One data line -> one Row.
ParseLine(schema, line) ==
    [n \in Range(FieldNames(schema)) |->
        LET i == IndexOf(FieldNames(schema), n)
        IN  IF i <= Len(line) THEN Coerce(schema[i].type, line[i]) ELSE Null]

\* A line is malformed when a field fails to parse or the field count is off.
Malformed(schema, line) ==
    \/ Len(line) # Len(schema)
    \/ \E i \in 1..Len(schema) :
          i <= Len(line) /\ line[i] # "" /\ Coerce(schema[i].type, line[i]) = Null

Frame(cols, rws) == [columns |-> cols, rows |-> rws, derived |-> <<>>]

NoFrame == Frame(<<>>, <<>>)

\* mode FAILFAST: a malformed line raises.
csv_failfast(schema, lines) ==
    IF \E i \in 1..Len(lines) : Malformed(schema, lines[i])
    THEN [ok |-> FALSE, frame |-> NoFrame]
    ELSE [ok |-> TRUE,
          frame |-> Frame(FieldNames(schema),
                          [i \in 1..Len(lines) |-> ParseLine(schema, lines[i])])]

\* spark.read.option("header","true").option("inferSchema","false")
\*      .schema(schema).csv(path): the default mode, PERMISSIVE.
csv(schema, lines) ==
    [ok |-> TRUE,
     frame |-> Frame(FieldNames(schema),
                     [i \in 1..Len(lines) |-> ParseLine(schema, lines[i])])]

\* ------------------------------------------------------------ column names
\* The characters of every column name of the model (TLC has no operator
\* that takes a string apart).
Chars(n) ==
    CASE n = "store_id" -> <<"s","t","o","r","e","_","i","d">>
      [] n = "store_name" -> <<"s","t","o","r","e","_","n","a","m","e">>
      [] n = "city" -> <<"c","i","t","y">>
      [] n = "store_type" -> <<"s","t","o","r","e","_","t","y","p","e">>
      [] n = "size_category" -> <<"s","i","z","e","_","c","a","t","e","g","o","r","y">>
      [] n = "size_sqm" -> <<"s","i","z","e","_","s","q","m">>
      [] n = "opening_date" -> <<"o","p","e","n","i","n","g","_","d","a","t","e">>
      [] n = "is_active" -> <<"i","s","_","a","c","t","i","v","e">>
      [] n = "product_id" -> <<"p","r","o","d","u","c","t","_","i","d">>
      [] n = "product_name" -> <<"p","r","o","d","u","c","t","_","n","a","m","e">>
      [] n = "brand" -> <<"b","r","a","n","d">>
      [] n = "category" -> <<"c","a","t","e","g","o","r","y">>
      [] n = "gender" -> <<"g","e","n","d","e","r">>
      [] n = "season" -> <<"s","e","a","s","o","n">>
      [] n = "price" -> <<"p","r","i","c","e">>
      [] n = "cost" -> <<"c","o","s","t">>
      [] n = "size_range" -> <<"s","i","z","e","_","r","a","n","g","e">>
      [] n = "color_options" -> <<"c","o","l","o","r","_","o","p","t","i","o","n","s">>
      [] n = "launch_date" -> <<"l","a","u","n","c","h","_","d","a","t","e">>
      [] n = "customer_id" -> <<"c","u","s","t","o","m","e","r","_","i","d">>
      [] n = "first_name" -> <<"f","i","r","s","t","_","n","a","m","e">>
      [] n = "last_name" -> <<"l","a","s","t","_","n","a","m","e">>
      [] n = "email" -> <<"e","m","a","i","l">>
      [] n = "age" -> <<"a","g","e">>
      [] n = "registration_date" -> <<"r","e","g","i","s","t","r","a","t","i","o","n","_","d","a","t","e">>
      [] n = "customer_segment" -> <<"c","u","s","t","o","m","e","r","_","s","e","g","m","e","n","t">>
      [] n = "loyalty_member" -> <<"l","o","y","a","l","t","y","_","m","e","m","b","e","r">>
      [] n = "transaction_id" -> <<"t","r","a","n","s","a","c","t","i","o","n","_","i","d">>
      [] n = "transaction_date" -> <<"t","r","a","n","s","a","c","t","i","o","n","_","d","a","t","e">>
      [] n = "transaction_time" -> <<"t","r","a","n","s","a","c","t","i","o","n","_","t","i","m","e">>
      [] n = "quantity" -> <<"q","u","a","n","t","i","t","y">>
      [] n = "unit_price" -> <<"u","n","i","t","_","p","r","i","c","e">>
      [] n = "discount_percent" -> <<"d","i","s","c","o","u","n","t","_","p","e","r","c","e","n","t">>
      [] n = "discount_amount" -> <<"d","i","s","c","o","u","n","t","_","a","m","o","u","n","t">>
      [] n = "total_amount" -> <<"t","o","t","a","l","_","a","m","o","u","n","t">>
      [] n = "payment_method" -> <<"p","a","y","m","e","n","t","_","m","e","t","h","o","d">>
      [] n = "channel" -> <<"c","h","a","n","n","e","l">>
      [] n = "ingestion_timestamp" -> <<"i","n","g","e","s","t","i","o","n","_","t","i","m","e","s","t","a","m","p">>
      [] n = "source_file" -> <<"s","o","u","r","c","e","_","f","i","l","e">>
      [] n = "Order_ID" -> <<"O","r","d","e","r","_","I","D">>
      [] n = "width" -> <<"w","i","d","t","h">>
      [] n = "amount" -> <<"a","m","o","u","n","t">>

UpperCase == <<"A","B","C","D","E","F","G","H","I","J","K","L","M",
               "N","O","P","Q","R","S","T","U","V","W","X","Y","Z">>

LowerCase == <<"a","b","c","d","e","f","g","h","i","j","k","l","m",
               "n","o","p","q","r","s","t","u","v","w","x","y","z">>

\* str.lower(), on the characters of a name.
lower(s) ==
    [i \in 1..Len(s) |->
        IF \E k \in 1..Len(UpperCase) : UpperCase[k] = s[i]
        THEN LowerCase[CHOOSE k \in 1..Len(UpperCase) : UpperCase[k] = s[i]]
        ELSE s[i]]

\* Python's  sub in s  on strings: sub occurs in s as a substring.
Contains(s, sub) ==
    \E i \in 1..(Len(s) - Len(sub) + 1) : SubSeq(s, i, i + Len(sub) - 1) = sub

\* 'id' in col_name.lower()
IsIdColumn(col_name) == Contains(lower(Chars(col_name)), <<"i", "d">>)

\* --------------------------------------------------------- quality auditor
\* A percentage in hundredths, or what pandas gives for a division by zero.
Num(h) == [kind |-> "num", h |-> h]

NaN == [kind |-> "nan", h |-> 0]

Inf == [kind |-> "inf", h |-> 0]

\* round(x, 2) of x = num / den, in hundredths: to the nearest hundredth, a
\* tie to the even one (numpy's rounding).
RoundHundredths(num, den) ==
    LET q == (num * 100) \div den
        r == (num * 100) % den
    IN  IF 2 * r < den THEN q
        ELSE IF 2 * r > den THEN q + 1
        ELSE IF q % 2 = 0 THEN q ELSE q + 1

\* (null_df['Null Count'] / total_rows * 100).round(2) on a pandas Series:
\* a division by zero raises nothing, 0/0 is NaN and k/0 is inf.
NullPercent(null_count, total_rows) ==
    IF total_rows = 0
    THEN (IF null_count = 0 THEN NaN ELSE Inf)
    ELSE Num(RoundHundredths(null_count * 100, total_rows))

\* count(when(col(c).isNull(), c)): the rows whose c is NULL.
NullCount(rws, c) == Cardinality({i \in 1..Len(rws) : rws[i][c] = Null})

\* df.select(col_name).count(): the rows, without distinct().
CountNotDistinct(rws, c) == Len(rws)

\* df.select(col_name).distinct().count(): the distinct rows of the one
\* column; NULL, when present, is one of them.
DistinctCount(rws, c) == Cardinality({rws[i][c] : i \in 1..Len(rws)})

\* The test that opens the distinct-count section.
HasKeyColumn(cols) ==
    \/ "store_id" \in Range(cols)
    \/ "product_id" \in Range(cols)
    \/ "customer_id" \in Range(cols)

\* The columns the distinct-count section reports.
DistinctColumns(cols) ==
    IF HasKeyColumn(cols) THEN {c \in Range(cols) : IsIdColumn(c)} ELSE {}

data_quality_check(frame, table_name) ==
    LET total_rows == Len(frame.rows)
    IN  [table_name |-> table_name,
         total_rows |-> total_rows,
         null_count |-> [c \in Range(frame.columns) |-> NullCount(frame.rows, c)],
         null_pct |-> [c \in Range(frame.columns) |->
                          NullPercent(NullCount(frame.rows, c), total_rows)],
         distinct_count |-> [c \in DistinctColumns(frame.columns) |->
                                DistinctCount(frame.rows, c)],
         result |-> TRUE]

NoReport ==
    [table_name |-> "", total_rows |-> 0, null_count |-> <<>>,
     null_pct |-> <<>>, distinct_count |-> <<>>, result |-> FALSE]

\* --------------------------------------------------------------- DataFrames
Expr(n, f, a) == [name |-> n, fn |-> f, arg |-> a]

\* df.withColumn(name, expr): the expression is recorded, not evaluated.
withColumn(frame, n, f, a) ==
    [frame EXCEPT !.derived = Append(@, Expr(n, f, a))]

\* df.columns
Columns(frame) ==
    frame.columns \o [i \in 1..Len(frame.derived) |-> frame.derived[i].name]

\* current_timestamp() read afresh for each row.
EvalPerRow(e, now, i) ==
    IF e.fn = "current_timestamp" THEN ToString(now + i) ELSE e.arg

\* current_timestamp() is the time the query started, the same for every row
\* of the query; lit(v) is v.
Eval(e, now, i) == IF e.fn = "current_timestamp" THEN ToString(now) ELSE e.arg

\* The rows an action on the frame computes, for a query started at now.
Collect(frame, now) ==
    [i \in 1..Len(frame.rows) |->
        [c \in Range(Columns(frame)) |->
            IF c \in Range(frame.columns) THEN frame.rows[i][c]
            ELSE LET k == CHOOSE k \in 1..Len(frame.derived) :
                              frame.derived[k].name = c
                 IN  Eval(frame.derived[k], now, i)]]

\* df_raw.withColumn("ingestion_timestamp", current_timestamp())
\*       .withColumn("source_file", lit(<file>))
Enriched(frame, d) ==
    withColumn(withColumn(frame, "ingestion_timestamp", "current_timestamp", ""),
               "source_file", "lit", SourceFile(d))

\* ------------------------------------------------------------------ storage
\* A table is its directory of data files and its Delta log.  A data file
\* belongs to the write (txn) that wrote it and to one partition; a log entry
\* is one committed write.  Readers see the files of the snapshot the log
\* defines, never the directory listing.
NoTable == [files |-> <<>>, log |-> <<>>]

DataFile(txn, part, rws) == [txn |-> txn, partition |-> part, rows |-> rws]

Commit(txn, mode, cols, part) ==
    [txn |-> txn, mode |-> mode, columns |-> cols, partitionBy |-> part]

\* .mode("append")
write_mode_append == "append"

\* .mode("overwrite")
write_mode == "overwrite"

\* A write that ignores partitionBy: every row goes to the table's root.
PartitionKeyFlat(part, row) == ""

\* The directory of a partition: the value of the partition column.
PartitionKey(part, row) ==
    IF part = "" THEN ""
    ELSE IF row[part] = Null THEN "__HIVE_DEFAULT_PARTITION__" ELSE row[part]

\* A write task whose row replaces the rows its data file already holds.
AddRowTruncating(fs, txn, key, row) ==
    IF \E k \in 1..Len(fs) : fs[k].txn = txn /\ fs[k].partition = key
    THEN [k \in 1..Len(fs) |->
            IF fs[k].txn = txn /\ fs[k].partition = key
            THEN [fs[k] EXCEPT !.rows = <<row>>]
            ELSE fs[k]]
    ELSE Append(fs, DataFile(txn, key, <<row>>))

\* A write task puts one row into the data file of its partition.
AddRow(fs, txn, key, row) ==
    IF \E k \in 1..Len(fs) : fs[k].txn = txn /\ fs[k].partition = key
    THEN [k \in 1..Len(fs) |->
            IF fs[k].txn = txn /\ fs[k].partition = key
            THEN [fs[k] EXCEPT !.rows = Append(@, row)]
            ELSE fs[k]]
    ELSE Append(fs, DataFile(txn, key, <<row>>))

\* The writes whose files make up the snapshot: an overwrite commit removes
\* every earlier file, an append commit adds to them.
RECURSIVE SnapshotTxns(_)
SnapshotTxns(log) ==
    IF log = <<>> THEN {}
    ELSE LET last == log[Len(log)]
         IN  IF last.mode = "overwrite" THEN {last.txn}
             ELSE SnapshotTxns(SubSeq(log, 1, Len(log) - 1)) \cup {last.txn}

RECURSIVE RowsOf(_, _)
RowsOf(fs, txns) ==
    IF fs = <<>> THEN <<>>
    ELSE (IF Head(fs).txn \in txns THEN Head(fs).rows ELSE <<>>)
         \o RowsOf(Tail(fs), txns)

\* A reader that lists the directory instead of reading the log.
ScanDirectory(t) == RowsOf(t.files, {t.files[k].txn : k \in 1..Len(t.files)})

\* SELECT ... FROM <table>: the rows of the current snapshot.
Scan(t) == RowsOf(t.files, SnapshotTxns(t.log))

\* The data files of the current snapshot.
SnapshotFiles(t) ==
    {t.files[k] : k \in {k \in 1..Len(t.files) : t.files[k].txn \in SnapshotTxns(t.log)}}

\* A count that takes the data files for the rows.
CountFiles(t) == Cardinality(SnapshotFiles(t))

\* SELECT COUNT(*) as cnt FROM <table>
CountRows(t) == Len(Scan(t))

\* A Delta write commits once, after all its data files are written.
CommitReady(staged, total) == staged = total

\* ------------------------------------------------------------------- inputs
\* The CSV files of the model.  A well-formed line holds, for every column, a
\* token of the column's type (the generator writes booleans as True/False
\* and dates as YYYY-MM-DD).
ValidToken(type, k) ==
    CASE type = "String" -> <<"A", "B">>[k]
      [] type = "Integer" -> <<"1", "2">>[k]
      [] type = "Double" -> <<"1.5", "2">>[k]
      [] type = "Date" -> <<"2023-01-01", "2023-01-02">>[k]
      [] type = "Boolean" -> <<"True", "false">>[k]

GoodLine(schema, k) == [i \in 1..Len(schema) |-> ValidToken(schema[i].type, k)]

\* A line whose Integer fields are empty.
EmptyFieldLine(schema) ==
    [i \in 1..Len(schema) |->
        IF schema[i].type = "Integer" THEN "" ELSE ValidToken(schema[i].type, 1)]

\* A line whose typed fields do not parse.
BadLine(schema) ==
    [i \in 1..Len(schema) |->
        IF schema[i].type = "String" THEN ValidToken(schema[i].type, 2) ELSE "x"]

\* A line with too few fields.
ShortLine(schema) == SubSeq(GoodLine(schema, 1), 1, 2)

\* A line whose fields are all empty.
NullLine(schema) == [i \in 1..Len(schema) |-> ""]

LineKinds(schema) ==
    {GoodLine(schema, 1), GoodLine(schema, 2), EmptyFieldLine(schema),
     BadLine(schema), ShortLine(schema)}

SeqsUpTo(S, n) == UNION {[1..m -> S] : m \in 0..n}

\* A file of n well-formed lines.
CleanFile(schema, n) == [i \in 1..n |-> GoodLine(schema, 2 - (i % 2))]

\* ----------------------------------------------------------- program order
\* A script that writes each table before the quality checks.
StagesWriteFirst == <<"read", "write", "audit", "enrich", "verify">>

\* Steps 4 to 8 of the script, in its order.
Stages == <<"read", "audit", "enrich", "write", "verify">>

Position(s, x) == CHOOSE i \in 1..Len(s) : s[i] = x

\* The statement after statement <<stage, d>>: the script runs each step for
\* the four datasets in turn, then the next step.
After(stage, d) ==
    LET i == Position(DatasetOrder, d)
        j == Position(Stages, stage)
    IN  IF i < Len(DatasetOrder) THEN <<stage, DatasetOrder[i + 1]>>
        ELSE IF j < Len(Stages) THEN <<Stages[j + 1], DatasetOrder[1]>>
        ELSE <<"summary", "-">>

\* The statements that run a Spark job or touch storage.
IOStages == {"read", "audit", "write", "verify"}

NoJob == [txn |-> 0, rows |-> <<>>, n |-> 0]

NoError == <<"", "">>

\* ------------------------------------------------------------------ actions
InitSession ==
    /\ pc = <<"schemas", "-">>
    /\ schemas = [d \in Datasets |-> <<>>]
    /\ df_raw = [d \in Datasets |-> NoFrame]
    /\ report = [d \in Datasets |-> NoReport]
    /\ df = [d \in Datasets |-> NoFrame]
    /\ job = NoJob
    /\ row_count = [d \in Datasets |-> -1]
    /\ out = {}
    /\ error = NoError
    /\ trace = {}

InitStore ==
    /\ run = 1
    /\ faults = 0
    /\ clock = 0
    /\ tables = [t \in TableNames |-> NoTable]
    /\ written = [t \in TableNames |-> <<>>]

\* A run of the notebook against an empty metastore: each CSV file holds
\* 0..MaxRows well-formed lines, n of them in stores.csv and customers.csv
\* and MaxRows - n of them in products.csv and sales.csv.
Init ==
    /\ InitSession
    /\ InitStore
    /\ \E n \in 0..MaxRows :
          files = [d \in Datasets |->
                      CleanFile(SchemaOf(d),
                                IF d \in {"Stores", "Customers"} THEN n
                                ELSE MaxRows - n)]

\* Step 3: the four schemas are bound.
DefineSchemas ==
    /\ pc = <<"schemas", "-">>
    /\ schemas' = [d \in Datasets |-> SchemaOf(d)]
    /\ pc' = <<"read", DatasetOrder[1]>>
    /\ trace' = trace \cup {pc}
    /\ UNCHANGED <<run, faults, clock, files, df_raw, report, df, job, tables,
                   row_count, out, error,
                   written>>

\* Step 4: df_<d>_raw = spark.read...csv(path); print(count()); show(5).
\* A parse that raises ends the run.
Read(d) ==
    /\ pc = <<"read", d>>
    /\ LET r == csv(schemas[d], files[d])
       IN  IF r.ok
           THEN /\ df_raw' = [df_raw EXCEPT ![d] = r.frame]
                /\ out' = out \cup {[kind |-> "loaded", d |-> d, n |-> Len(r.frame.rows)]}
                /\ pc' = After("read", d)
                /\ trace' = trace \cup {pc}
                /\ error' = error
           ELSE /\ pc' = <<"aborted", "-">>
                /\ error' = <<"malformed", d>>
                /\ UNCHANGED <<df_raw, out, trace>>
    /\ UNCHANGED <<run, faults, clock, files, schemas, report, df, job, tables,
                   row_count,
                   written>>

\* A quality check that stops the run when a column has nulls or the frame
\* has no rows.
AuditGating(d) ==
    /\ pc = <<"audit", d>>
    /\ LET r == data_quality_check(df_raw[d], d)
       IN  IF \E c \in DOMAIN r.null_pct : r.null_pct[c] # Num(0)
           THEN /\ pc' = <<"aborted", "-">>
                /\ error' = pc
                /\ UNCHANGED <<report, trace>>
           ELSE /\ report' = [report EXCEPT ![d] = r]
                /\ pc' = After("audit", d)
                /\ trace' = trace \cup {pc}
                /\ error' = error
    /\ UNCHANGED <<run, faults, clock, files, schemas, df_raw, df, job, tables,
                   row_count, out, written>>

\* Step 5: data_quality_check(df_<d>_raw, "<d>").
Audit(d) ==
    /\ pc = <<"audit", d>>
    /\ report' = [report EXCEPT ![d] = data_quality_check(df_raw[d], d)]
    /\ pc' = After("audit", d)
    /\ trace' = trace \cup {pc}
    /\ UNCHANGED <<run, faults, clock, files, schemas, df_raw, df, job, tables,
                   row_count, out, error,
                   written>>

\* Step 6: df_<d> = df_<d>_raw.withColumn(...).withColumn(...).
Enrich(d) ==
    /\ pc = <<"enrich", d>>
    /\ df' = [df EXCEPT ![d] = Enriched(df_raw[d], d)]
    /\ pc' = After("enrich", d)
    /\ trace' = trace \cup {pc}
    /\ UNCHANGED <<run, faults, clock, files, schemas, df_raw, report, job,
                   tables, row_count, out, error,
                   written>>

\* Step 7, df_<d>.write...saveAsTable(...): the query starts; the frame's
\* rows are computed for this start time.
WriteBegin(d) ==
    /\ pc = <<"write", d>>
    /\ job.txn = 0
    /\ clock' = clock + 1
    /\ job' = [txn |-> clock + 1, rows |-> Collect(df[d], clock + 1), n |-> 0]
    /\ UNCHANGED <<pc, run, faults, files, schemas, df_raw, report, df, tables,
                   row_count, out, error, trace,
                   written>>

\* A write task adds the next row to a data file of the table's directory.
WriteTask(d) ==
    /\ pc = <<"write", d>>
    /\ job.txn # 0
    /\ job.n < Len(job.rows)
    /\ LET row == job.rows[job.n + 1]
       IN  tables' = [tables EXCEPT ![TableOf(d)].files =
                         AddRow(@, job.txn, PartitionKey(PartitionBy(d), row), row)]
    /\ job' = [job EXCEPT !.n = @ + 1]
    /\ UNCHANGED <<pc, run, faults, clock, files, schemas, df_raw, report, df,
                   row_count, out, error, trace,
                   written>>

\* The write commits: one entry is added to the Delta log.
WriteCommit(d) ==
    /\ pc = <<"write", d>>
    /\ job.txn # 0
    /\ CommitReady(job.n, Len(job.rows))
    /\ tables' = [tables EXCEPT ![TableOf(d)].log =
                     Append(@, Commit(job.txn, write_mode, Columns(df[d]), PartitionBy(d)))]
    /\ job' = NoJob
    /\ pc' = After("write", d)
    /\ trace' = trace \cup {pc}
    /\ written' = [written EXCEPT ![TableOf(d)] = job.rows]
    /\ UNCHANGED <<run, faults, clock, files, schemas, df_raw, report, df,
                   row_count, out, error>>

\* Steps 8 and 9: the table is read back; <d>_count = SELECT COUNT(*).
Verify(d) ==
    /\ pc = <<"verify", d>>
    /\ row_count' = [row_count EXCEPT ![d] = CountRows(tables[TableOf(d)])]
    /\ pc' = After("verify", d)
    /\ trace' = trace \cup {pc}
    /\ UNCHANGED <<run, faults, clock, files, schemas, df_raw, report, df, job,
                   tables, out, error,
                   written>>

\* Step 9: the record counts are printed; the run is complete.
Summary ==
    /\ pc = <<"summary", "-">>
    /\ out' = out \cup {[kind |-> "count", d |-> d, n |-> row_count[d]] : d \in Datasets}
    /\ pc' = <<"done", "-">>
    /\ trace' = trace \cup {pc}
    /\ UNCHANGED <<run, faults, clock, files, schemas, df_raw, report, df, job,
                   tables, row_count, error,
                   written>>

\* A statement that raises, caught by a handler that goes on with the next
\* statement.
RaiseAndContinue ==
    /\ pc[1] \in IOStages
    /\ faults < MaxFaults
    /\ faults' = faults + 1
    /\ error' = pc
    /\ pc' = After(pc[1], pc[2])
    /\ job' = NoJob
    /\ UNCHANGED <<run, clock, files, schemas, df_raw, report, df, tables,
                   row_count, out, trace, written>>

\* A statement that runs a Spark job raises (source unreadable, storage I/O
\* error, executor loss).  Nothing catches it: the run ends there.  A failed
\* write commits nothing; the data files it wrote stay in the directory.
Raise ==
    /\ pc[1] \in IOStages
    /\ faults < MaxFaults
    /\ faults' = faults + 1
    /\ error' = pc
    /\ pc' = <<"aborted", "-">>
    /\ job' = NoJob
    /\ UNCHANGED <<run, clock, files, schemas, df_raw, report, df, tables,
                   row_count, out, trace,
                   written>>

\* The notebook is run again, in a fresh session, on the same files and the
\* same metastore.
Rerun ==
    /\ pc[1] \in {"done", "aborted"}
    /\ run < MaxRuns
    /\ run' = run + 1
    /\ pc' = <<"schemas", "-">>
    /\ schemas' = [d \in Datasets |-> <<>>]
    /\ df_raw' = [d \in Datasets |-> NoFrame]
    /\ report' = [d \in Datasets |-> NoReport]
    /\ df' = [d \in Datasets |-> NoFrame]
    /\ job' = NoJob
    /\ row_count' = [d \in Datasets |-> -1]
    /\ out' = {}
    /\ error' = NoError
    /\ trace' = {}
    /\ UNCHANGED <<faults, clock, files, tables,
                   written>>

Next ==
    \/ DefineSchemas
    \/ \E d \in Datasets : Read(d)
    \/ \E d \in Datasets : Audit(d)
    \/ \E d \in Datasets : Enrich(d)
    \/ \E d \in Datasets : WriteBegin(d)
    \/ \E d \in Datasets : WriteTask(d)
    \/ \E d \in Datasets : WriteCommit(d)
    \/ \E d \in Datasets : Verify(d)
    \/ Summary
    \/ Raise
    \/ Rerun

Spec == Init /\ [][Next]_vars

\* ---------------------------------------------------- the reader, any file
\* One dataset's file is any sequence of at most MaxLines lines, well-formed
\* or not; the other files hold one well-formed line.
InitReader ==
    /\ InitSession
    /\ InitStore
    /\ \E d0 \in Datasets :
          \E lines \in SeqsUpTo(LineKinds(SchemaOf(d0)), MaxLines) :
             files = [d \in Datasets |->
                         IF d = d0 THEN lines ELSE CleanFile(SchemaOf(d), 1)]

NextReader ==
    \/ DefineSchemas
    \/ \E d \in Datasets : Read(d)
    \/ Raise

SpecReader == InitReader /\ [][NextReader]_vars

\* ------------------------------------- data_quality_check, on any DataFrame
\* The frames data_quality_check is applied to: a few column lists, with and
\* without one of the three key columns, and any rows over three values.
AuditColumns ==
    { <<"store_id", "city">>, <<"transaction_id", "amount">>,
      <<"customer_id", "Order_ID">>, <<"width">> }

AuditValues == {Null, "A", "B"}

AuditFrames ==
    UNION { {Frame(cols, rws) : rws \in SeqsUpTo([Range(cols) -> AuditValues], MaxAuditRows)}
            : cols \in AuditColumns }

\* The run is about to call data_quality_check; the first frame is any frame
\* of AuditFrames, the others are what the reader gives for a one-line file.
InitAudit ==
    /\ InitStore
    /\ pc = <<"audit", DatasetOrder[1]>>
    /\ files = [d \in Datasets |-> CleanFile(SchemaOf(d), 1)]
    /\ schemas = [d \in Datasets |-> SchemaOf(d)]
    /\ \E f \in AuditFrames :
          df_raw = [d \in Datasets |->
                       IF d = DatasetOrder[1] THEN f
                       ELSE csv(SchemaOf(d), files[d]).frame]
    /\ report = [d \in Datasets |-> NoReport]
    /\ df = [d \in Datasets |-> NoFrame]
    /\ job = NoJob
    /\ row_count = [d \in Datasets |-> -1]
    /\ out = {}
    /\ error = NoError
    /\ trace = {<<"schemas", "-">>} \cup {<<"read", d>> : d \in Datasets}

NextAudit == \E d \in Datasets : Audit(d)

SpecAudit == InitAudit /\ [][NextAudit]_vars

\* ------------------------------------------------ one run, any sales file
\* The lines of sales_transactions.csv: well-formed lines of either date, a
\* line whose typed fields (transaction_date among them) do not parse, and a
\* line of empty fields.
SalesLines ==
    {GoodLine(sales_schema, 1), GoodLine(sales_schema, 2),
     BadLine(sales_schema), NullLine(sales_schema)}

\* sales_transactions.csv is any sequence of at most MaxRows such lines; the
\* other files hold one well-formed line.
InitSales ==
    /\ InitSession
    /\ InitStore
    /\ \E lines \in SeqsUpTo(SalesLines, MaxRows) :
          files = [d \in Datasets |->
                      IF d = "Sales" THEN lines ELSE CleanFile(SchemaOf(d), 1)]

\* One run of the notebook, from Step 3 to the summary or to a failure.
NextSales ==
    \/ DefineSchemas
    \/ \E d \in Datasets : Read(d)
    \/ \E d \in Datasets : Audit(d)
    \/ \E d \in Datasets : Enrich(d)
    \/ \E d \in Datasets : WriteBegin(d)
    \/ \E d \in Datasets : WriteTask(d)
    \/ \E d \in Datasets : WriteCommit(d)
    \/ \E d \in Datasets : Verify(d)
    \/ Summary
    \/ Raise

SpecSales == InitSales /\ [][NextSales]_vars

\* ================================================================== claims
Count(s, x) == Cardinality({i \in 1..Len(s) : s[i] = x})

\* The same rows, each the same number of times, in any order.
SameBag(a, b) ==
    /\ Len(a) = Len(b)
    /\ \A x \in Range(a) \cup Range(b) : Count(a, x) = Count(b, x)

Done == pc = <<"done", "-">>

Aborted == pc = <<"aborted", "-">>

\* C1: round trip. Once a dataset's table has been read back, the count that
\* was read back is the number of rows of the frame that was enriched and
\* written, for any number of rows, zero included.
RoundTrip ==
    \A d \in Datasets :
        <<"verify", d>> \in trace =>
            /\ row_count[d] = Len(df_raw[d].rows)
            /\ row_count[d] = Len(df[d].rows)

\* A complete run in which an empty frame and a frame of two rows were both
\* written and counted.
RoundTripWitness ==
    /\ Done
    /\ Len(df_raw["Stores"].rows) = 0 /\ row_count["Stores"] = 0
    /\ Len(df_raw["Products"].rows) = 2 /\ row_count["Products"] = 2

\* C2: overwrite, not accumulation. Whatever writes a table has received,
\* its visible rows are the rows of its last committed write, and the count
\* read back after the second write of the same file is the count of the
\* file again.
OverwriteIdempotent ==
    \A d \in Datasets :
        LET t == tables[TableOf(d)]
        IN  t.log # <<>> =>
               /\ SameBag(Scan(t), written[TableOf(d)])
               /\ Len(Scan(t)) = Len(files[d])
               /\ <<"verify", d>> \in trace => row_count[d] = Len(files[d])

\* The second run of the notebook is complete: the table has been written
\* twice with the same two rows and read back.
OverwriteIdempotentWitness ==
    /\ Done
    /\ run = 2
    /\ Len(tables["bronze_stores"].log) = 2
    /\ Len(files["Stores"]) = 2
    /\ row_count["Stores"] = 2

\* C3: null accounting. For every audited frame of N rows and every column
\* C with k nulls, the report has nullCounts[C] = k, and nullPercents[C] is
\* k / N * 100 to the nearest hundredth, and is 0 when N = 0.
NullAccounting ==
    \A d \in Datasets :
        <<"audit", d>> \in trace =>
            LET rws == df_raw[d].rows
                N == Len(rws)
            IN  \A c \in Range(df_raw[d].columns) :
                    LET k == Cardinality({i \in 1..N : rws[i][c] = Null})
                        pct == report[d].null_pct[c]
                    IN  /\ report[d].null_count[c] = k
                        /\ N > 0 =>
                              /\ pct.kind = "num"
                              /\ 2 * (pct.h * N - k * 10000) <= N
                              /\ 2 * (k * 10000 - pct.h * N) <= N
                        /\ N = 0 => pct = Num(0)

\* The column names of the model in which "id" occurs, in any case.
NamesWithId ==
    {"store_id", "product_id", "customer_id", "transaction_id", "Order_ID", "width"}

\* C4, as claimed: distinct counts. For every audited frame, the report has
\* a distinct count for exactly the columns whose name contains "id" in any
\* case, and the count is the number of different values of the column,
\* whether or not the frame has a store_id, product_id or customer_id column.
DistinctReport ==
    \A d \in Datasets :
        <<"audit", d>> \in trace =>
            LET f == df_raw[d]
                dc == report[d].distinct_count
            IN  /\ DOMAIN dc = Range(f.columns) \cap NamesWithId
                /\ \A c \in DOMAIN dc :
                      dc[c] = Cardinality({f.rows[i][c] : i \in 1..Len(f.rows)})

\* C4, amended: for every audited frame that has a store_id, product_id or
\* customer_id column, the report has a distinct count for exactly the
\* columns whose name contains "id" in any case, and the count is the number
\* of different values of the column, NULL being one of them; for a frame
\* with none of the three columns the report has no distinct count.
DistinctReportKeyed ==
    \A d \in Datasets :
        <<"audit", d>> \in trace =>
            LET f == df_raw[d]
                dc == report[d].distinct_count
                keyed == {"store_id", "product_id", "customer_id"} \cap Range(f.columns) # {}
            IN  /\ keyed => DOMAIN dc = Range(f.columns) \cap NamesWithId
                /\ ~keyed => DOMAIN dc = {}
                /\ \A c \in DOMAIN dc :
                      dc[c] = Cardinality({f.rows[i][c] : i \in 1..Len(f.rows)})

\* A frame with customer_id values A, A, B and Order_ID values with a NULL
\* has been audited: two distinct customer ids; and the Sales frame has
\* been audited: its four id columns are reported.
DistinctReportKeyedWitness ==
    /\ <<"audit", "Sales">> \in trace
    /\ DOMAIN report["Sales"].distinct_count =
          {"transaction_id", "store_id", "product_id", "customer_id"}
    /\ df_raw["Stores"].columns = <<"customer_id", "Order_ID">>
    /\ Len(df_raw["Stores"].rows) = 3
    /\ df_raw["Stores"].rows[1]["customer_id"] = "A"
    /\ df_raw["Stores"].rows[2]["customer_id"] = "A"
    /\ df_raw["Stores"].rows[3]["customer_id"] = "B"
    /\ df_raw["Stores"].rows[3]["Order_ID"] = Null
    /\ report["Stores"].distinct_count["customer_id"] = 2
    /\ "Order_ID" \in DOMAIN report["Stores"].distinct_count

\* The column lists of the input contract, in its order.
InputContract(d) ==
    CASE d = "Stores" ->
            << "store_id", "store_name", "city", "store_type", "size_category",
               "size_sqm", "opening_date", "is_active" >>
      [] d = "Products" ->
            << "product_id", "product_name", "brand", "category", "gender",
               "season", "price", "cost", "size_range", "color_options",
               "launch_date", "is_active" >>
      [] d = "Customers" ->
            << "customer_id", "first_name", "last_name", "email", "age",
               "gender", "city", "registration_date", "customer_segment",
               "loyalty_member", "is_active" >>
      [] d = "Sales" ->
            << "transaction_id", "transaction_date", "transaction_time",
               "store_id", "product_id", "customer_id", "quantity",
               "unit_price", "discount_percent", "discount_amount",
               "total_amount", "payment_method", "channel" >>

\* C5: schema registry. From the statement that binds them to the end of the
\* run, the four schemas have 8, 12, 11 and 13 columns, with unique names in
\* the order of the input contract: no statement of the run changes them.
SchemaRegistry ==
    pc[1] # "schemas" =>
        /\ Len(schemas["Stores"]) = 8
        /\ Len(schemas["Products"]) = 12
        /\ Len(schemas["Customers"]) = 11
        /\ Len(schemas["Sales"]) = 13
        /\ \A d \in Datasets :
              /\ FieldNames(schemas[d]) = InputContract(d)
              /\ \A i, j \in 1..Len(schemas[d]) :
                    schemas[d][i].name = schemas[d][j].name => i = j

\* The end of a second run: every statement has run, twice, on the schemas.
SchemaRegistryWitness ==
    /\ Done
    /\ run = 2
    /\ FieldNames(schemas["Sales"]) = InputContract("Sales")

\* C6: atomic overwrite. Every step leaves the rows a reader of a table sees
\* as they were, or replaces them by all the rows of the frame being written
\* to that table; a step that ends the run with an error leaves them as they
\* were.
AtomicOverwrite ==
    [][\A d \in Datasets :
          LET t == TableOf(d)
          IN  /\ Scan(tables'[t]) # Scan(tables[t]) =>
                    /\ pc = <<"write", d>>
                    /\ job.txn # 0
                    /\ SameBag(Scan(tables'[t]), job.rows)
              /\ pc'[1] = "aborted" => Scan(tables'[t]) = Scan(tables[t])]_vars

\* A write to a table that holds an earlier version has failed after it
\* wrote data files: the files are in the directory, the reader sees the
\* earlier version.
AtomicOverwriteWitness ==
    /\ Aborted
    /\ error[1] = "write"
    /\ LET t == tables[TableOf(error[2])]
       IN  /\ t.log # <<>>
           /\ \E k \in 1..Len(t.files) : t.files[k].txn \notin SnapshotTxns(t.log)
           /\ Scan(t) # <<>>
           /\ SameBag(Scan(t), written[TableOf(error[2])])

\* The statements of the script, and their order.
Statements ==
    {<<"schemas", "-">>, <<"summary", "-">>} \cup (Range(Stages) \X Datasets)

StmtIndex(s) ==
    IF s[1] = "schemas" THEN 0
    ELSE IF s[1] = "summary" THEN Len(Stages) * Len(DatasetOrder) + 1
    ELSE (Position(Stages, s[1]) - 1) * Len(DatasetOrder) + Position(DatasetOrder, s[2])

\* C7, as claimed: failure isolation. When a statement of one dataset has
\* failed, every other dataset has been read, written and verified in the
\* same run.
FailureIsolation ==
    Aborted =>
        \A e \in Datasets \ {error[2]} :
            {<<"read", e>>, <<"write", e>>, <<"verify", e>>} \subseteq trace

\* C7, amended: a failure ends the run. When a statement has failed the run
\* is over; exactly the statements before it in the script have run, and
\* none after it: the tables written before it hold their new rows, and no
\* table has been counted that was to be counted after it.
FailureEndsRun ==
    error # NoError =>
        /\ Aborted
        /\ trace = {s \in Statements : StmtIndex(s) < StmtIndex(error)}
        /\ \A e \in Datasets :
              /\ <<"write", e>> \in trace =>
                    /\ tables[TableOf(e)].log # <<>>
                    /\ Len(Scan(tables[TableOf(e)])) = Len(df_raw[e].rows)
              /\ <<"verify", e>> \notin trace => row_count[e] = -1

\* The write of Customers failed: Stores and Products are written, Sales is
\* not, and nothing has been verified.
FailureEndsRunWitness ==
    /\ Aborted
    /\ error = <<"write", "Customers">>
    /\ <<"write", "Stores">> \in trace
    /\ tables["bronze_stores"].log # <<>>
    /\ tables["bronze_sales"].log = <<>>
    /\ row_count["Stores"] = -1

\* C8, as claimed: verification gate. When the count read back from a table
\* is below an expected minimum, a VerificationMismatch for the table is
\* reported to the operator or raised.
VerificationGate ==
    \A d \in Datasets : \A expectedMinRows \in 1..MaxRows :
        (<<"verify", d>> \in trace /\ row_count[d] < expectedMinRows) =>
            \/ \E m \in out : m.kind = "VerificationMismatch" /\ m.d = d
            \/ error = <<"VerificationMismatch", d>>

\* C8, amended: the verification reads every table back and reports the
\* count it read to the operator; it compares the count with nothing, so the
\* run completes without any mismatch report whatever the count is.
VerifyReportsCount ==
    Done =>
        /\ error = NoError
        /\ \A d \in Datasets :
              /\ row_count[d] = Len(Scan(tables[TableOf(d)]))
              /\ [kind |-> "count", d |-> d, n |-> Len(Scan(tables[TableOf(d)]))] \in out
        /\ \A m \in out : m.kind \in {"loaded", "count"}

\* A complete run whose Stores table was read back with no row and whose
\* Products table with two.
VerifyReportsCountWitness ==
    /\ Done
    /\ row_count["Stores"] = 0
    /\ [kind |-> "count", d |-> "Stores", n |-> 0] \in out
    /\ row_count["Products"] = 2

\* A token that parses as a value of the type.
WellTyped(type, tok) ==
    \/ type = "String"
    \/ type = "Integer" /\ tok \in {"1", "2"}
    \/ type = "Double" /\ tok \in {"1", "2", "1.5"}
    \/ type = "Date" /\ tok \in {"2023-01-01", "2023-01-02"}
    \/ type = "Boolean" /\ tok \in {"True", "true", "False", "false"}

Project(row, cols) == [c \in Range(cols) |-> row[c]]

\* The rows rws are the rows of raw, each with the two lineage columns added.
Lineage(rws, raw, d) ==
    /\ \A i \in 1..Len(rws) :
          /\ DOMAIN rws[i] = Range(raw.columns) \cup {"ingestion_timestamp", "source_file"}
          /\ rws[i]["source_file"] = SourceFile(d)
          /\ \A j \in 1..Len(rws) :
                rws[i]["ingestion_timestamp"] = rws[j]["ingestion_timestamp"]
    /\ SameBag([i \in 1..Len(rws) |-> Project(rws[i], raw.columns)], raw.rows)

\* C10: lineage enrichment. An enriched frame has the columns of the raw
\* frame followed by ingestion_timestamp and source_file, and the raw
\* frame's rows; the rows it gives to a write, and the rows of the table it
\* was written to, all carry one ingestion_timestamp and the dataset's file
\* name, and are otherwise the raw frame's rows, as many as it has.
LineageEnrichment ==
    \A d \in Datasets :
        /\ <<"enrich", d>> \in trace =>
              /\ Columns(df[d]) = df_raw[d].columns \o <<"ingestion_timestamp", "source_file">>
              /\ df[d].columns = df_raw[d].columns
              /\ df[d].rows = df_raw[d].rows
              /\ Len(df_raw[d].rows) = Len(files[d])
        /\ (pc = <<"write", d>> /\ job.txn # 0) => Lineage(job.rows, df_raw[d], d)
        /\ <<"write", d>> \in trace =>
              Lineage(Scan(tables[TableOf(d)]), df_raw[d], d)

\* The enriched Products frame, of two rows, has been written.
LineageEnrichmentWitness ==
    /\ <<"write", "Products">> \in trace
    /\ Len(df_raw["Products"].rows) = 2
    /\ Len(Scan(tables["bronze_products"])) = 2

\* The partition of the rows of one transaction_date: the date itself, and
\* the default partition for the rows that have none.
PartitionOfDate(v) == IF v = Null THEN "__HIVE_DEFAULT_PARTITION__" ELSE v

\* C11: partition correctness. Once the Sales frame has been written, the
\* partitions of bronze_sales are exactly the distinct transaction_date
\* values of the written rows, every data file holds only rows of its
\* partition's date, the table has as many rows as the file has lines, and
\* its rows are the rows of the frame with the two lineage columns; no other
\* table is partitioned.
PartitionCorrect ==
    \A d \in Datasets :
        LET t == tables[TableOf(d)]
            parts == {f.partition : f \in SnapshotFiles(t)}
        IN  t.log # <<>> =>
              /\ Len(Scan(t)) = Len(files[d])
              /\ Len(Scan(t)) = Len(df_raw[d].rows)
              /\ SameBag(Scan(t), written[TableOf(d)])
              /\ Lineage(Scan(t), df_raw[d], d)
              /\ IF d = "Sales"
                 THEN /\ t.log[Len(t.log)].partitionBy = "transaction_date"
                      /\ parts = {PartitionOfDate(written[TableOf(d)][i]["transaction_date"])
                                    : i \in 1..Len(written[TableOf(d)])}
                      /\ \A f \in SnapshotFiles(t) : \A k \in 1..Len(f.rows) :
                            PartitionOfDate(f.rows[k]["transaction_date"]) = f.partition
                 ELSE /\ t.log[Len(t.log)].partitionBy = ""
                      /\ parts \subseteq {""}

\* Two Sales rows, one of 2023-01-01 and one of 2023-01-02, have been
\* written: bronze_sales has exactly these two partitions and two rows.
PartitionCorrectWitness ==
    /\ <<"write", "Sales">> \in trace
    /\ Len(files["Sales"]) = 2
    /\ {f.partition : f \in SnapshotFiles(tables["bronze_sales"])}
          = {"2023-01-01", "2023-01-02"}
    /\ Len(Scan(tables["bronze_sales"])) = 2

\* The stages of dataset d that follow its quality check.
Downstream(d) ==
    \/ Enrich(d)
    \/ WriteBegin(d)
    \/ WriteTask(d)
    \/ WriteCommit(d)
    \/ Verify(d)

\* C12: the quality check is advisory and pure. Whatever the frame (rows
\* with a null in every column and no rows at all included), a quality check
\* that no job failure interrupts returns, raises nothing, changes neither
\* the frame nor the files, the enriched frames or the tables, and hands over
\* to the next statement of the script; and whatever the reports say, the
\* enrich, write and verify statements of a dataset can run when the script
\* reaches them.
AuditAdvisory ==
    /\ [][\A d \in Datasets :
            (pc = <<"audit", d>> /\ faults' = faults /\ pc' # pc) =>
                /\ pc' = After("audit", d)
                /\ error' = error
                /\ report'[d].result = TRUE
                /\ report'[d].total_rows = Len(df_raw[d].rows)
                /\ df_raw' = df_raw
                /\ UNCHANGED <<files, schemas, df, tables, row_count>>]_vars
    /\ [](\A d \in Datasets :
            pc \in {<<"enrich", d>>, <<"write", d>>, <<"verify", d>>}
                => ENABLED Downstream(d))

\* A complete run whose Sales frame has two rows with a null in every
\* column: the report counts two nulls in every column, the frame is still
\* what was read, and the table has been written and read back.
AuditAdvisoryWitness ==
    /\ Done
    /\ Len(df_raw["Sales"].rows) = 2
    /\ \A c \in Range(df_raw["Sales"].columns) :
          /\ df_raw["Sales"].rows[1][c] = Null
          /\ df_raw["Sales"].rows[2][c] = Null
          /\ report["Sales"].null_count[c] = 2
    /\ df_raw["Sales"] = csv(sales_schema, files["Sales"]).frame
    /\ row_count["Sales"] = 2

\* The order of the stages of one dataset's pipeline: Reader, Auditor,
\* Enricher, Writer, Verifier.
PipelineOrder == <<"read", "audit", "enrich", "write", "verify">>

Earlier(stage) ==
    {PipelineOrder[i] : i \in 1..(Position(PipelineOrder, stage) - 1)}

\* C13: stage ordering. In every run, a stage of a dataset is reached only
\* when the earlier stages of that dataset have run, in the order read,
\* audit, enrich, write, verify; a step changes a dataset's table only
\* during the write of that dataset, after the dataset has been read,
\* audited and enriched in that run; and a count is read back from the table
\* only after the write of that run has committed, and is the count of the
\* rows that write committed.
StageOrdering ==
    /\ [](\A d \in Datasets : \A s \in Range(PipelineOrder) :
            (pc = <<s, d>> \/ <<s, d>> \in trace)
                => \A e \in Earlier(s) : <<e, d>> \in trace)
    /\ [][\A d \in Datasets :
            /\ tables'[TableOf(d)] # tables[TableOf(d)] =>
                  /\ pc = <<"write", d>>
                  /\ {<<"read", d>>, <<"audit", d>>, <<"enrich", d>>} \subseteq trace
                  /\ Len(df_raw[d].rows) = Len(files[d])
                  /\ report[d].result = TRUE
                  /\ Columns(df[d]) =
                        df_raw[d].columns \o <<"ingestion_timestamp", "source_file">>
            /\ (row_count'[d] # row_count[d] /\ row_count'[d] # -1) =>
                  /\ pc = <<"verify", d>>
                  /\ <<"write", d>> \in trace
                  /\ job = NoJob
                  /\ tables[TableOf(d)].log # <<>>
                  /\ row_count'[d] = Len(written[TableOf(d)])]_vars

\* A complete run: every stage of every dataset has run, and the two rows of
\* the Products frame have been written and counted.
StageOrderingWitness ==
    /\ Done
    /\ \A d \in Datasets : \A s \in Range(PipelineOrder) : <<s, d>> \in trace
    /\ Len(tables["bronze_products"].log) = 1
    /\ row_count["Products"] = 2
    /\ row_count["Sales"] = 2

====
